---------------------------- MODULE Spec2Model ----------------------------
(***************************************************************************)
(* Model of src/RVE_support/rve_mpc_generator.py: the periodic boundary    *)
(* condition generator.  One run of main() is one behaviour: the input     *)
(* file is drawn in Init and the run steps through parse, classification,  *)
(* pairing, the closure loop, the final MPC pass, the driver constraints,  *)
(* the conflict check and the output write session.                        *)
(*                                                                         *)
(* Numbers.  Coordinates, deltas and MPC coefficients are integers in      *)
(* units of 1e-7 (One = 1.0).  Strain values are integers in units of      *)
(* 1e-15.  Every tolerance of the source is expressed in those units.      *)
(***************************************************************************)
EXTENDS Integers, Sequences, FiniteSets, TLC

\* ------------------------------------------------------------------
\* Units and program constants
\* ------------------------------------------------------------------
One == 10000000
RoundStep == 10
OneTermTol == 0
TolRelDen == 1000000
EpsTol == 10
CloseTol == 1000
MaxIter == 50
StrUnit == 100000

\* ------------------------------------------------------------------
\* Bounds of the input space
\* ------------------------------------------------------------------
MaxAbsLines == 2
MaxMapLines == 2

Dofs == {"u", "v", "w"}
comp == <<"u", "v", "w">>
DofIdx(d) == IF d = "u" THEN 1 ELSE IF d = "v" THEN 2 ELSE 3

Abs(a) == IF a < 0 THEN -a ELSE a
SetMax(S) == CHOOSE m \in S : \A o \in S : o <= m
SetMin(S) == CHOOSE m \in S : \A o \in S : m <= o
Range(s) == {s[k] : k \in DOMAIN s}

\* ascending sequence of a finite set of integers
RECURSIVE SortedSeq(_)
SortedSeq(S) == IF S = {} THEN <<>>
                ELSE LET m == SetMin(S) IN <<m>> \o SortedSeq(S \ {m})

\* (node,dof) keys in the order of Python's sorted() on (int,str) tuples
KeyLess(a, b) == a[1] < b[1] \/ (a[1] = b[1] /\ DofIdx(a[2]) < DofIdx(b[2]))
RECURSIVE SortedKeys(_)
SortedKeys(S) == IF S = {} THEN <<>>
                 ELSE LET m == CHOOSE k \in S : \A o \in S : o = k \/ KeyLess(k, o)
                      IN <<m>> \o SortedKeys(S \ {m})

is_close(a, b, tol) == Abs(a - b) <= tol

\* round(val, 6): nearest multiple of 1e-6, ties to even
round_coord(val) ==
    LET a == Abs(val)
        q == a \div RoundStep
        r == a % RoundStep
        up == (2 * r > RoundStep) \/ (2 * r = RoundStep /\ q % 2 = 1)
        m == (IF up THEN q + 1 ELSE q) * RoundStep
    IN IF val < 0 THEN -m ELSE m

\* float_to_str on a coordinate-unit value: sign, integer part and the
\* seven decimals the unit carries (rounding at 10 decimals is exact here)
float_to_str(val) ==
    IF val = 0 THEN <<"", 0, 0>>
    ELSE <<IF val < 0 THEN "-" ELSE "", Abs(val) \div One, Abs(val) % One>>

\* float_to_str on a strain-unit value: below 1e-12 prints "0.0", otherwise
\* rounded to 10 decimals (ties to even); the result counts units of 1e-10
float_to_str_eps(val) ==
    IF Abs(val) < CloseTol THEN <<"", 0, 0>>
    ELSE LET a == Abs(val)
             q == a \div StrUnit
             r == a % StrUnit
             up == (2 * r > StrUnit) \/ (2 * r = StrUnit /\ q % 2 = 1)
             m == IF up THEN q + 1 ELSE q
         IN IF m = 0 THEN <<"", 0, 0>> ELSE <<IF val < 0 THEN "-" ELSE "", 0, m>>

\* ------------------------------------------------------------------
\* Input files
\* ------------------------------------------------------------------
CubeMesh == << <<0,0,0>>, <<One,0,0>>, <<One,One,0>>, <<0,One,0>>,
               <<0,0,One>>, <<One,0,One>>, <<One,One,One>>, <<0,One,One>> >>

\* corners of [0,2]^3, a Z face pair (the plus node 3e-7 off in x), an
\* X-Y edge pair, an X- face node without partner and an interior node
BoxMesh == << <<0,0,0>>, <<2*One,0,0>>, <<2*One,2*One,0>>, <<0,2*One,0>>,
              <<0,0,2*One>>, <<2*One,0,2*One>>, <<2*One,2*One,2*One>>, <<0,2*One,2*One>>,
              <<One,One,0>>, <<One+3,One,2*One>>,
              <<0,0,One>>, <<2*One,2*One,One>>,
              <<0,One,One>>, <<One,One,One>> >>

TinyMesh == << <<0,0,0>>, <<One,One,One>> >>

\* all nodes in the plane z = 0: every corner touches Z- and Z+
FlatMesh == << <<0,0,0>>, <<One,0,0>>, <<One,One,0>>, <<0,One,0>> >>

MeshNames == {"cube", "box", "tiny", "flat"}
MeshOf(n) == IF n = "cube" THEN CubeMesh
             ELSE IF n = "box" THEN BoxMesh
             ELSE IF n = "tiny" THEN TinyMesh ELSE FlatMesh

\* vertex id lines (labels A..H in order) tried with each mesh
VertexLines(n) ==
    IF n = "cube" THEN { <<1,2,3,4,5,6,7,8>>, <<1,7,3,4,5,6,2,8>>, <<1,2,3,4,5,6,7,9>> }
    ELSE IF n = "box" THEN { <<1,2,3,4,5,6,7,8>>, <<1,12,3,10,5,11,9,13>> }
    ELSE IF n = "tiny" THEN { <<1,1,1,1,1,1,2,2>> }
    ELSE { <<1,2,3,4,1,2,3,4>> }

\* auxiliary node ids, outside every mesh
DummyA == Len(BoxMesh) + 1
DummyB == Len(BoxMesh) + 2
DriverA == Len(BoxMesh) + 3
DriverB == Len(BoxMesh) + 4

EpsVal == 1000 * CloseTol
ZeroEps == << <<0,0,0>>, <<0,0,0>>, <<0,0,0>> >>
EpsSet == { ZeroEps,
            << <<0,EpsVal,0>>, <<0,0,0>>, <<0,0,0>> >>,
            << <<0,EpsVal,0>>, <<EpsVal+500,0,0>>, <<0,0,0>> >>,
            << <<0,EpsVal,0>>, <<EpsVal+2000,0,0>>, <<0,0,0>> >>,
            << <<EpsVal,5,0>>, <<-EpsVal,0,0>>, <<0,0,-EpsVal>> >> }

\* DUMMY_EPS_MAP lines: i j dummy_node driver_node dof
MapLinePool == { <<1,2,DummyA,DriverA,"v">>, <<2,1,DummyB,DriverA,"v">>,
                 <<1,1,2,DriverB,"u">>, <<1,2,DummyA,7,"u">> }
MapBlocks == { b \in UNION { [1..n -> MapLinePool] : n \in 0..MaxMapLines } :
                 \A h, k \in DOMAIN b : h # k => b[h] # b[k] }

\* ABS_CONSTRAINTS lines: node_id dof...
AbsLinePool == { <<1, <<"u","v","w">>>>, <<7, <<"u">>>>,
                 <<DummyA, <<"v","u">>>>, <<DriverA, <<"v">>>> }
AbsBlocks == { SortedAbs \in UNION { [1..n -> AbsLinePool] : n \in 0..MaxAbsLines } :
                 \A k \in 1..(Len(SortedAbs)-1) :
                     SortedAbs[k][1] < SortedAbs[k+1][1]
                     \/ (SortedAbs[k][1] = SortedAbs[k+1][1]
                         /\ Len(SortedAbs[k][2]) < Len(SortedAbs[k+1][2])) }

NodeLines(mesh) == [k \in 1..Len(mesh) |-> <<k, mesh[k][1], mesh[k][2], mesh[k][3]>>]

Defects == {"too_few_lines", "bad_header", "bad_strain_row", "abs_truncated",
            "abs_bad_dof", "no_dummy_map", "dmap_truncated", "dmap_bad_entry",
            "bad_node_line"}

FilesOfMesh(m) ==
    { [ n_nodes |-> Len(MeshOf(m)), Ldecl |-> <<One, One, One>>,
        vertex_line |-> vl, eps |-> e, abs |-> ab, dmap |-> dm,
        node_lines |-> NodeLines(MeshOf(m)), defect |-> "none" ] :
      vl \in VertexLines(m), e \in EpsSet, ab \in AbsBlocks, dm \in MapBlocks }

GoodFiles == UNION { FilesOfMesh(m) : m \in MeshNames }

\* declared dimensions of a second kind: those of the box, off by 1e-7 in z
AltDims == <<2 * One, 2 * One, 2 * One + 1>>

\* files with at most one line in each optional block, declared AltDims
DimFiles == { [f EXCEPT !.Ldecl = AltDims] :
                f \in {g \in GoodFiles : Len(g.abs) <= 1 /\ Len(g.dmap) <= 1} }

BaseFile == [ n_nodes |-> 8, Ldecl |-> <<One, One, One>>,
              vertex_line |-> <<1,2,3,4,5,6,7,8>>, eps |-> ZeroEps,
              abs |-> <<>>, dmap |-> <<>>,
              node_lines |-> NodeLines(CubeMesh), defect |-> "none" ]

\* files that parse_model_def rejects
BadFiles ==
    { [BaseFile EXCEPT !.defect = d] : d \in Defects }
    \cup { [BaseFile EXCEPT !.node_lines = nl] :
             nl \in { [NodeLines(CubeMesh) EXCEPT ![2] = <<3,One,0,0>>],
                      [NodeLines(CubeMesh) EXCEPT ![3] = <<2,One,One,0>>],
                      [NodeLines(CubeMesh) EXCEPT ![1] = <<0,0,0,0>>],
                      SubSeq(NodeLines(CubeMesh), 1, 7) } }
    \cup { [BaseFile EXCEPT !.dmap = << <<1,4,DummyA,DriverA,"u">> >>],
           [BaseFile EXCEPT !.dmap = << <<1,2,DummyA,DriverA,"x">> >>] }

\* ------------------------------------------------------------------
\* State
\* ------------------------------------------------------------------
VARIABLES
    file,               \* the input file read by parse_model_def
    pc,                 \* position of main()
    error,              \* class of the ValueError raised, "" when none
    dims_decl,          \* (Lx_decl, Ly_decl, Lz_decl)
    vertex_ids,         \* label index 1..8 (A..H) -> node id
    eps,                \* strain tensor
    nodes,              \* node id -> [x, y, z, faces, kind]
    fixed_dofs,         \* caller-supplied zero constraints
    dummy_eps_map,      \* sequence of <<i, j, dummy, driver, dof>>, one per key, insertion order
    bounds,             \* <<xmin, xmax, ymin, ymax, zmin, zmax>>
    face_pairings,      \* axis index 1..3 -> sequence of pairings
    edge_pairings,      \* label index 1..6 -> sequence of pairings
    vertex_pairings,    \* sequence of pairings
    fixed,              \* the closure's working FixedDofSet
    iter,               \* closure iterations completed
    warnings_all,       \* warnings collected so far
    implied_log,        \* per completed generation pass: the single-term equations it resolved
    fixed_final,        \* closure result
    mpc_lines,          \* closure result: final MPC lines
    driver_constraints, \* sequence of <<node, dof, value>>, one per key, insertion order
    out_state,          \* "unopened", "open", "closed"
    out                 \* lines written to the output file

vars == <<file, pc, error, dims_decl, vertex_ids, eps, nodes, fixed_dofs, dummy_eps_map,
          bounds, face_pairings, edge_pairings, vertex_pairings, fixed, iter,
          warnings_all, implied_log, fixed_final, mpc_lines, driver_constraints,
          out_state, out>>

parsedVars == <<dims_decl, vertex_ids, eps, fixed_dofs, dummy_eps_map>>
pairVars == <<bounds, face_pairings, edge_pairings, vertex_pairings>>
closureVars == <<fixed, iter, warnings_all, implied_log, fixed_final, mpc_lines>>
outVars == <<out_state, out>>

Init ==
    /\ file \in GoodFiles \cup DimFiles \cup BadFiles
    /\ pc = "parse"
    /\ error = ""
    /\ dims_decl = <<0, 0, 0>>
    /\ vertex_ids = <<>>
    /\ eps = ZeroEps
    /\ nodes = <<>>
    /\ fixed_dofs = {}
    /\ dummy_eps_map = <<>>
    /\ bounds = <<0, 0, 0, 0, 0, 0>>
    /\ face_pairings = <<>>
    /\ edge_pairings = <<>>
    /\ vertex_pairings = <<>>
    /\ fixed = {}
    /\ iter = 0
    /\ warnings_all = {}
    /\ implied_log = <<>>
    /\ fixed_final = {}
    /\ mpc_lines = <<>>
    /\ driver_constraints = <<>>
    /\ out_state = "unopened"
    /\ out = <<>>

\* ------------------------------------------------------------------
\* parse_model_def
\* ------------------------------------------------------------------
\* ABS_CONSTRAINTS block: every dof of every line, lower-cased
ParseAbs(lines) == UNION { { <<lines[k][1], lines[k][2][d]>> : d \in DOMAIN lines[k][2] }
                           : k \in DOMAIN lines }

\* dict assignment dummy_eps_map[(i,j)] = (dn, drv, dof): a repeated key
\* keeps its position and takes the new value
MapPut(m, e) ==
    IF \E k \in DOMAIN m : m[k][1] = e[1] /\ m[k][2] = e[2]
    THEN [k \in DOMAIN m |-> IF m[k][1] = e[1] /\ m[k][2] = e[2] THEN e ELSE m[k]]
    ELSE Append(m, e)

RECURSIVE ParseMap(_, _)
ParseMap(lines, k) == IF k = 0 THEN <<>> ELSE MapPut(ParseMap(lines, k - 1), lines[k])

BadMapLine(l) == l[1] \notin {1,2,3} \/ l[2] \notin {1,2,3} \/ l[5] \notin Dofs

\* variant: the node id is only required to lie in 1..n_nodes
NodeIdMismatch_RangeOnly(f) ==
    \E k \in 1..f.n_nodes : f.node_lines[k][1] \notin 1..f.n_nodes

\* some node line does not carry its 1-based position as node id
NodeIdMismatch(f) == \E k \in 1..f.n_nodes : f.node_lines[k][1] # k

\* the first fatal condition parse_model_def meets on a file, "" when none
ParseError(f) ==
    IF f.defect \in {"too_few_lines", "bad_header", "bad_strain_row", "abs_truncated",
                     "abs_bad_dof", "no_dummy_map", "dmap_truncated", "dmap_bad_entry"}
    THEN f.defect
    ELSE IF \E k \in DOMAIN f.dmap : BadMapLine(f.dmap[k])
    THEN LET k == SetMin({h \in DOMAIN f.dmap : BadMapLine(f.dmap[h])})
         IN IF f.dmap[k][1] \notin {1,2,3} \/ f.dmap[k][2] \notin {1,2,3}
            THEN "dmap_invalid_ij" ELSE "dmap_invalid_dof"
    ELSE IF f.n_nodes > Len(f.node_lines) THEN "nodes_truncated"
    ELSE IF f.defect = "bad_node_line" THEN "bad_node_line"
    ELSE IF NodeIdMismatch(f) THEN "node_not_sequential"
    ELSE ""

\* nodes[nid] = Node(...): the dict is keyed by the id read from the line,
\* a repeated id keeps the last line that has it
ParsedNodes(f) ==
    [nid \in {f.node_lines[k][1] : k \in 1..f.n_nodes} |->
        LET k == SetMax({h \in 1..f.n_nodes : f.node_lines[h][1] = nid})
        IN [x |-> f.node_lines[k][2], y |-> f.node_lines[k][3],
            z |-> f.node_lines[k][4], faces |-> {}, kind |-> ""]]

parse_model_def ==
    /\ pc = "parse"
    /\ IF ParseError(file) # ""
       THEN /\ pc' = "failed"
            /\ error' = ParseError(file)
            /\ UNCHANGED <<parsedVars, nodes>>
       ELSE /\ pc' = "classify"
            /\ dims_decl' = file.Ldecl
            /\ vertex_ids' = file.vertex_line
            /\ eps' = file.eps
            /\ fixed_dofs' = ParseAbs(file.abs)
            /\ dummy_eps_map' = ParseMap(file.dmap, Len(file.dmap))
            /\ nodes' = ParsedNodes(file)
            /\ UNCHANGED error
    /\ UNCHANGED <<file, pairVars, closureVars, driver_constraints, outVars>>

\* ------------------------------------------------------------------
\* detect_bounds, classify_boundary_nodes
\* ------------------------------------------------------------------
detect_bounds(nd) ==
    LET xs == {nd[k].x : k \in DOMAIN nd}
        ys == {nd[k].y : k \in DOMAIN nd}
        zs == {nd[k].z : k \in DOMAIN nd}
    IN <<SetMin(xs), SetMax(xs), SetMin(ys), SetMax(ys), SetMin(zs), SetMax(zs)>>

ClassTol(b) ==
    LET Lmax == SetMax({Abs(b[2] - b[1]), Abs(b[4] - b[3]), Abs(b[6] - b[5])})
    IN IF Lmax > 0 THEN Lmax \div TolRelDen ELSE One \div TolRelDen

FacesOf(n, b, tol) ==
        (IF Abs(n.x - b[1]) <= tol THEN {"X-"} ELSE {})
        \cup (IF Abs(n.x - b[2]) <= tol THEN {"X+"} ELSE {})
        \cup (IF Abs(n.y - b[3]) <= tol THEN {"Y-"} ELSE {})
        \cup (IF Abs(n.y - b[4]) <= tol THEN {"Y+"} ELSE {})
        \cup (IF Abs(n.z - b[5]) <= tol THEN {"Z-"} ELSE {})
        \cup (IF Abs(n.z - b[6]) <= tol THEN {"Z+"} ELSE {})

KindOf(nf) == IF nf = 0 THEN "interior"
              ELSE IF nf = 1 THEN "face"
              ELSE IF nf = 2 THEN "edge"
              ELSE IF nf = 3 THEN "vertex" ELSE "degenerate"

classify_boundary_nodes(b, nd) ==
    LET tol == ClassTol(b)
    IN [k \in DOMAIN nd |->
          LET faces == FacesOf(nd[k], b, tol)
          IN [nd[k] EXCEPT !.faces = faces, !.kind = KindOf(Cardinality(faces))]]

\* variant: the bounds are taken from the declared dimensions
Classify_DeclaredBounds ==
    /\ pc = "classify"
    /\ \E b \in {<<0, dims_decl[1], 0, dims_decl[2], 0, dims_decl[3]>>} :
          /\ bounds' = b
          /\ nodes' = classify_boundary_nodes(b, nodes)
    /\ pc' = "pair"
    /\ UNCHANGED <<file, error, parsedVars, face_pairings, edge_pairings, vertex_pairings,
                   closureVars, driver_constraints, outVars>>

Classify ==
    /\ pc = "classify"
    /\ \E b \in {detect_bounds(nodes)} :
          /\ bounds' = b
          /\ nodes' = classify_boundary_nodes(b, nodes)
    /\ pc' = "pair"
    /\ UNCHANGED <<file, error, parsedVars, face_pairings, edge_pairings, vertex_pairings,
                   closureVars, driver_constraints, outVars>>

\* ------------------------------------------------------------------
\* Pairings
\* ------------------------------------------------------------------
MkPairing(nd, mid, pid) ==
    [minus_node |-> mid, plus_node |-> pid,
     delta |-> <<nd[pid].x - nd[mid].x, nd[pid].y - nd[mid].y, nd[pid].z - nd[mid].z>>]

\* the loop over {key: nid} dictionaries shared by face and edge pairing:
\* keys come in the order of their first minus node, each key holds the
\* last node that has it, keys without a plus node are skipped
PairByKey(nd, minusIds, plusIds, key(_)) ==
    LET firsts == {i \in minusIds : \A j \in minusIds : key(nd[j]) = key(nd[i]) => j >= i}
        matched == {i \in firsts : \E j \in plusIds : key(nd[j]) = key(nd[i])}
        order == SortedSeq(matched)
    IN [k \in DOMAIN order |->
          MkPairing(nd,
                    SetMax({j \in minusIds : key(nd[j]) = key(nd[order[k]])}),
                    SetMax({j \in plusIds : key(nd[j]) = key(nd[order[k]])}))]

\* variant: the X faces are matched on the y coordinate alone
FaceKeyX_FirstOnly(n) == <<round_coord(n.y), round_coord(n.y)>>

FaceKeyX(n) == <<round_coord(n.y), round_coord(n.z)>>
FaceKeyY(n) == <<round_coord(n.x), round_coord(n.z)>>
FaceKeyZ(n) == <<round_coord(n.x), round_coord(n.y)>>

\* minus_face[0]
FaceAxis(face) == IF face \in {"X-", "X+"} THEN "X"
                  ELSE IF face \in {"Y-", "Y+"} THEN "Y" ELSE "Z"

\* variant: the matching key is chosen by the full name of the minus face
pair_face_nodes_KeyByName(nd, minus_face, plus_face) ==
    LET minusIds == {k \in DOMAIN nd : minus_face \in nd[k].faces}
        plusIds == {k \in DOMAIN nd : plus_face \in nd[k].faces}
    IN IF minus_face = "X-" THEN PairByKey(nd, minusIds, plusIds, FaceKeyX)
       ELSE IF minus_face = "Y-" THEN PairByKey(nd, minusIds, plusIds, FaceKeyY)
       ELSE PairByKey(nd, minusIds, plusIds, FaceKeyZ)

pair_face_nodes(nd, minus_face, plus_face) ==
    LET minusIds == {k \in DOMAIN nd : minus_face \in nd[k].faces}
        plusIds == {k \in DOMAIN nd : plus_face \in nd[k].faces}
    IN IF FaceAxis(minus_face) = "X" THEN PairByKey(nd, minusIds, plusIds, FaceKeyX)
       ELSE IF FaceAxis(minus_face) = "Y" THEN PairByKey(nd, minusIds, plusIds, FaceKeyY)
       ELSE PairByKey(nd, minusIds, plusIds, FaceKeyZ)

build_face_pairings(nd) ==
    << pair_face_nodes(nd, "X-", "X+"), pair_face_nodes(nd, "Y-", "Y+"),
       pair_face_nodes(nd, "Z-", "Z+") >>

\* edge labels in the order of specs: minus faces, plus faces, free axis
EdgeSpecs == << <<{"X-","Y-"}, {"X+","Y+"}, "Z">>, <<{"X-","Y+"}, {"X+","Y-"}, "Z">>,
               <<{"X-","Z-"}, {"X+","Z+"}, "Y">>, <<{"X-","Z+"}, {"X+","Z-"}, "Y">>,
               <<{"Y-","Z-"}, {"Y+","Z+"}, "X">>, <<{"Y-","Z+"}, {"Y+","Z-"}, "X">> >>

EdgeKeyX(n) == round_coord(n.x)
EdgeKeyY(n) == round_coord(n.y)
EdgeKeyZ(n) == round_coord(n.z)

EdgeList(nd, sp) ==
    LET minusIds == {k \in DOMAIN nd : nd[k].kind = "edge" /\ nd[k].faces = sp[1]}
        plusIds == {k \in DOMAIN nd : nd[k].kind = "edge" /\ nd[k].faces = sp[2]}
    IN IF minusIds = {} \/ plusIds = {} THEN <<>>
       ELSE IF sp[3] = "X" THEN PairByKey(nd, minusIds, plusIds, EdgeKeyX)
       ELSE IF sp[3] = "Y" THEN PairByKey(nd, minusIds, plusIds, EdgeKeyY)
       ELSE PairByKey(nd, minusIds, plusIds, EdgeKeyZ)

build_edge_pairings(nd) == [l \in DOMAIN EdgeSpecs |-> EdgeList(nd, EdgeSpecs[l])]

\* body diagonals as (plus label, minus label): (G,A), (F,D), (H,B), (C,E)
VertexDefs == << <<7, 1>>, <<6, 4>>, <<8, 2>>, <<3, 5>> >>

VertexMissing(nd, vid) ==
    \E k \in DOMAIN VertexDefs :
        vid[VertexDefs[k][1]] \notin DOMAIN nd \/ vid[VertexDefs[k][2]] \notin DOMAIN nd

build_vertex_pairings_from_vertices(nd, vid) ==
    [k \in DOMAIN VertexDefs |-> MkPairing(nd, vid[VertexDefs[k][2]], vid[VertexDefs[k][1]])]

BuildPairings ==
    /\ pc = "pair"
    /\ face_pairings' = build_face_pairings(nodes)
    /\ edge_pairings' = build_edge_pairings(nodes)
    /\ IF VertexMissing(nodes, vertex_ids)
       THEN /\ pc' = "failed"
            /\ error' = "vertex_missing"
            /\ UNCHANGED <<vertex_pairings, fixed>>
       ELSE /\ pc' = "closure_enter"
            /\ vertex_pairings' = build_vertex_pairings_from_vertices(nodes, vertex_ids)
            /\ UNCHANGED error
    /\ UNCHANGED <<file, parsedVars, nodes, bounds, closureVars, driver_constraints, outVars>>

\* ------------------------------------------------------------------
\* generate_dummy_mpcs_for_pairs
\* ------------------------------------------------------------------
MapHas(m, i, j) == \E k \in DOMAIN m : m[k][1] = i /\ m[k][2] = j
MapGet(m, i, j) == m[CHOOSE k \in DOMAIN m : m[k][1] = i /\ m[k][2] = j]

PlusTerm(p, dof, fx) ==
    IF <<p.plus_node, dof>> \notin fx THEN << <<One, p.plus_node, dof>> >> ELSE <<>>

MinusTerm(p, dof, fx) ==
    IF <<p.minus_node, dof>> \notin fx THEN << <<-One, p.minus_node, dof>> >> ELSE <<>>

\* variant: the coefficient has the sign of delta
DummyTerm_PlusDelta(p, i, j, e, dmap, fx) ==
    IF Abs(e[i][j]) < EpsTol \/ p.delta[j] = 0 THEN <<>>
    ELSE IF ~MapHas(dmap, i, j) THEN <<>>
    ELSE IF <<MapGet(dmap, i, j)[3], MapGet(dmap, i, j)[5]>> \in fx THEN <<>>
    ELSE << <<p.delta[j], MapGet(dmap, i, j)[3], MapGet(dmap, i, j)[5]>> >>

\* the dummy term of strain component (i,j), a sequence of zero or one term
DummyTerm(p, i, j, e, dmap, fx) ==
    IF Abs(e[i][j]) < EpsTol \/ p.delta[j] = 0 THEN <<>>
    ELSE IF ~MapHas(dmap, i, j) THEN <<>>
    ELSE IF <<MapGet(dmap, i, j)[3], MapGet(dmap, i, j)[5]>> \in fx THEN <<>>
    ELSE << <<-p.delta[j], MapGet(dmap, i, j)[3], MapGet(dmap, i, j)[5]>> >>

MissingMapWarnings(p, i, e, dmap) ==
    { <<"missing_map", i, j>> : j \in {h \in 1..3 : Abs(e[i][h]) >= EpsTol /\ p.delta[h] # 0
                                                     /\ ~MapHas(dmap, i, h)} }

\* the term list of pairing p and dof index i under the fixed set fx
\* variant: the minus-node term is appended ahead of the plus-node term
Terms_MinusFirst(p, i, e, dmap, fx) ==
    MinusTerm(p, comp[i], fx) \o PlusTerm(p, comp[i], fx)
    \o DummyTerm(p, i, 1, e, dmap, fx) \o DummyTerm(p, i, 2, e, dmap, fx)
    \o DummyTerm(p, i, 3, e, dmap, fx)

Terms(p, i, e, dmap, fx) ==
    PlusTerm(p, comp[i], fx) \o MinusTerm(p, comp[i], fx)
    \o DummyTerm(p, i, 1, e, dmap, fx) \o DummyTerm(p, i, 2, e, dmap, fx)
    \o DummyTerm(p, i, 3, e, dmap, fx)

\* variant: the physical-node test is missing
IsImplied_AnyNode(t, nd) == is_close(Abs(t[1]), One, OneTermTol)

\* variant: the coefficient is compared without abs
IsImplied_PlusOnly(t, nd) == t[2] \in DOMAIN nd /\ is_close(t[1], One, OneTermTol)

\* variant: the coefficient test is missing
IsImplied_AnyCoeff(t, nd) == t[2] \in DOMAIN nd

\* a lone term becomes an implied zero constraint
IsImplied(t, nd) == t[2] \in DOMAIN nd /\ is_close(Abs(t[1]), One, OneTermTol)

\* text of an MPC line: first term "nid coeff dof", then "sign nid |coeff| dof"
LineText(terms) ==
    [k \in DOMAIN terms |->
        IF k = 1 THEN <<"", terms[k][2], float_to_str(terms[k][1]), terms[k][3]>>
        ELSE <<IF terms[k][1] >= 0 THEN "+" ELSE "-", terms[k][2],
               float_to_str(Abs(terms[k][1])), terms[k][3]>>]

\* variant: the kind filter is missing
KindOk_NoFilter(p, nd, required_kind) ==
    p.minus_node \in DOMAIN nd /\ p.plus_node \in DOMAIN nd

KindOk(p, nd, required_kind) ==
    /\ p.minus_node \in DOMAIN nd /\ p.plus_node \in DOMAIN nd
    /\ required_kind # "" =>
          (nd[p.minus_node].kind = required_kind /\ nd[p.plus_node].kind = required_kind)

\* the equations of a pairing list in loop order: pairing by pairing, dof u, v, w
Equations(pair_list, grp, required_kind, nd, e, dmap, fx) ==
    <<>> \o [n \in 1..(3 * Len(pair_list)) |->
        LET idx == ((n - 1) \div 3) + 1
            i == ((n - 1) % 3) + 1
            p == pair_list[idx]
        IN [grp |-> grp, idx |-> idx, dof |-> i,
            terms |-> IF KindOk(p, nd, required_kind) THEN Terms(p, i, e, dmap, fx) ELSE <<>>,
            warns |-> IF KindOk(p, nd, required_kind)
                      THEN MissingMapWarnings(p, i, e, dmap) ELSE {}]]

IsLine(q) == Len(q.terms) >= 2
MkLine(q) == [grp |-> q.grp, idx |-> q.idx, dof |-> q.dof, text |-> LineText(q.terms)]
MapSeq(s, Op(_)) == [k \in DOMAIN s |-> Op(s[k])]

generate_dummy_mpcs_for_pairs(pair_list, grp, required_kind, nd, e, dmap, fx) ==
    LET eqs == Equations(pair_list, grp, required_kind, nd, e, dmap, fx)
        single == {n \in DOMAIN eqs : Len(eqs[n].terms) = 1}
        resolved == {n \in single : IsImplied(eqs[n].terms[1], nd)}
    IN [ mpc_lines |-> MapSeq(SelectSeq(eqs, IsLine), MkLine),
         implied_abs |-> { <<eqs[n].terms[1][2], eqs[n].terms[1][3]>> : n \in resolved },
         warnings |-> UNION {eqs[n].warns : n \in DOMAIN eqs}
                      \cup { <<"single_term", eqs[n].terms[1][2], eqs[n].terms[1][3],
                               float_to_str(eqs[n].terms[1][1])>> : n \in single \ resolved },
         collapsed |-> { <<eqs[n].grp, eqs[n].idx, eqs[n].dof, eqs[n].terms[1][2],
                            eqs[n].terms[1][3]>> : n \in resolved } ]

\* ------------------------------------------------------------------
\* closure_generate_all_mpcs
\* ------------------------------------------------------------------
\* the groups in processing order: faces X, Y, Z, the six edge labels, the vertices
GroupList(g) == IF g <= 3 THEN face_pairings[g]
                ELSE IF g <= 9 THEN edge_pairings[g - 3] ELSE vertex_pairings
\* variant: the face groups are generated without a required kind
GroupKind_FacesUnfiltered(g) == IF g <= 3 THEN "" ELSE IF g <= 9 THEN "edge" ELSE ""

GroupKind(g) == IF g <= 3 THEN "face" ELSE IF g <= 9 THEN "edge" ELSE ""
NGroups == 3 + Len(EdgeSpecs) + 1

GenGroup(g, fx) ==
    generate_dummy_mpcs_for_pairs(GroupList(g), g, GroupKind(g), nodes, eps, dummy_eps_map, fx)

\* variant: a group sees the pairs implied by the groups processed before it
RECURSIVE Pass_Eager(_, _)
Pass_Eager(g, fx) ==
    IF g = 0 THEN [mpc_lines |-> <<>>, implied_total |-> {}, warnings |-> {}, collapsed |-> {}]
    ELSE LET prev == Pass_Eager(g - 1, fx)
             r == GenGroup(g, fx \cup prev.implied_total)
         IN [ mpc_lines |-> prev.mpc_lines \o r.mpc_lines,
              implied_total |-> prev.implied_total \cup r.implied_abs,
              warnings |-> prev.warnings \cup r.warnings,
              collapsed |-> prev.collapsed \cup r.collapsed ]

\* one pass over the groups 1..g under the fixed set fx, in processing order
RECURSIVE Pass(_, _)
Pass(g, fx) ==
    IF g = 0 THEN [mpc_lines |-> <<>>, implied_total |-> {}, warnings |-> {}, collapsed |-> {}]
    ELSE LET prev == Pass(g - 1, fx)
             r == GenGroup(g, fx)
         IN [ mpc_lines |-> prev.mpc_lines \o r.mpc_lines,
              implied_total |-> prev.implied_total \cup r.implied_abs,
              warnings |-> prev.warnings \cup r.warnings,
              collapsed |-> prev.collapsed \cup r.collapsed ]

\* the pairs an iteration adds to the fixed set fx
NewImplied(fx) == Pass(NGroups, fx).implied_total \ fx

\* variant: the loop breaks as soon as fewer than two pairs are new
LoopBreaks_Early(new_implied) == Cardinality(new_implied) < 2

\* the loop leaves through break
LoopBreaks(new_implied) == new_implied = {}

\* variant: the loop gives up after its first iteration
LoopExhausted_First(n) == n >= 1

\* range(50) is used up after n iterations
LoopExhausted(n) == n >= MaxIter

\* variant: assignment in place of union
FixedUpdate_Assign(fx, new_implied) == new_implied

\* fixed |= new_implied
FixedUpdate(fx, new_implied) == fx \cup new_implied

\* variant: the final pass is generated under the caller-supplied set
FinalPassSet_Initial == fixed_dofs

\* the set the final pass is generated under
FinalPassSet == fixed

\* the loop of closure_generate_all_mpcs from its n-th iteration on
RECURSIVE ClosedSet(_, _)
ClosedSet(fx, n) ==
    IF LoopExhausted(n) THEN fx
    ELSE LET new_implied == NewImplied(fx)
         IN IF LoopBreaks(new_implied) THEN fx
            ELSE ClosedSet(FixedUpdate(fx, new_implied), n + 1)

\* the function as a whole: the closed set and the final MPC list
closure_generate_all_mpcs(fixed_initial) ==
    LET closed == ClosedSet(fixed_initial, 0)
    IN [fixed_final |-> closed, all_mpc_lines |-> Pass(NGroups, closed).mpc_lines]

ClosureEnter ==
    /\ pc = "closure_enter"
    /\ fixed' = fixed_dofs
    /\ warnings_all' = {}
    /\ iter' = 0
    /\ pc' = "closure"
    /\ UNCHANGED <<file, error, parsedVars, nodes, pairVars, implied_log, fixed_final,
                   mpc_lines, driver_constraints, outVars>>

\* one iteration of the for loop; the else branch of the loop runs with the
\* last iteration when it did not break
ClosureIter ==
    /\ pc = "closure"
    /\ ~LoopExhausted(iter)
    /\ \E r \in {Pass(NGroups, fixed)} : \E new_implied \in {r.implied_total \ fixed} :
          /\ iter' = iter + 1
          /\ implied_log' = Append(implied_log, [fx |-> fixed, collapsed |-> r.collapsed,
                                                  implied |-> r.implied_total])
          /\ IF LoopBreaks(new_implied)
             THEN /\ pc' = "final"
                  /\ warnings_all' = warnings_all \cup r.warnings
                  /\ UNCHANGED fixed
             ELSE /\ fixed' = FixedUpdate(fixed, new_implied)
                  /\ IF LoopExhausted(iter + 1)
                     THEN /\ pc' = "final"
                          /\ warnings_all' = warnings_all \cup r.warnings \cup {<<"iter_limit">>}
                     ELSE /\ pc' = "closure"
                          /\ warnings_all' = warnings_all \cup r.warnings
    /\ UNCHANGED <<file, error, parsedVars, nodes, pairVars, fixed_final, mpc_lines,
                   driver_constraints, outVars>>

\* the final pass under the closed set and the return to main
FinalMpcs ==
    /\ pc = "final"
    /\ \E r \in {Pass(NGroups, FinalPassSet)} :
          /\ mpc_lines' = r.mpc_lines
          /\ warnings_all' = warnings_all \cup r.warnings
          /\ implied_log' = Append(implied_log, [fx |-> FinalPassSet, collapsed |-> r.collapsed,
                                                  implied |-> r.implied_total])
    /\ fixed_final' = fixed
    /\ pc' = "driver"
    /\ UNCHANGED <<file, error, parsedVars, nodes, pairVars, fixed, iter,
                   driver_constraints, outVars>>

\* ------------------------------------------------------------------
\* build_driver_constraints
\* ------------------------------------------------------------------
DrvHas(drv, node, dof) == \E k \in DOMAIN drv : drv[k][1] = node /\ drv[k][2] = dof
DrvGet(drv, node, dof) == drv[CHOOSE k \in DOMAIN drv : drv[k][1] = node /\ drv[k][2] = dof][3]
DrvKeys(drv) == { <<drv[k][1], drv[k][2]>> : k \in DOMAIN drv }

\* the loop over the first n map entries: the dictionary built so far and
\* whether the conflict error was raised
RECURSIVE DriverScan(_, _, _)
DriverScan(e, dmap, n) ==
    IF n = 0 THEN [drv |-> <<>>, conflict |-> FALSE]
    ELSE LET prev == DriverScan(e, dmap, n - 1)
             ent == dmap[n]
             val == e[ent[1]][ent[2]]
         IN IF prev.conflict THEN prev
            ELSE IF Abs(val) < EpsTol THEN prev
            ELSE IF DrvHas(prev.drv, ent[4], ent[5])
                 THEN IF is_close(DrvGet(prev.drv, ent[4], ent[5]), val, CloseTol)
                      THEN prev
                      ELSE [prev EXCEPT !.conflict = TRUE]
            ELSE [prev EXCEPT !.drv = Append(prev.drv, <<ent[4], ent[5], val>>)]

\* variant: the conflict is never raised
build_driver_constraints_NoRaise(e, dmap) ==
    [DriverScan(e, dmap, Len(dmap)) EXCEPT !.conflict = FALSE]

build_driver_constraints(e, dmap) == DriverScan(e, dmap, Len(dmap))

BuildDriver ==
    /\ pc = "driver"
    /\ \E r \in {build_driver_constraints(eps, dummy_eps_map)} :
          IF r.conflict
          THEN /\ pc' = "failed"
               /\ error' = "driver_conflict"
               /\ UNCHANGED driver_constraints
          ELSE /\ pc' = "check"
               /\ driver_constraints' = r.drv
               /\ UNCHANGED error
    /\ UNCHANGED <<file, parsedVars, nodes, pairVars, closureVars, outVars>>

\* ------------------------------------------------------------------
\* main: conflict check and the output write session
\* ------------------------------------------------------------------
\* variant: the check looks only at the caller-supplied zero constraints
CheckedZeroSet_CallerOnly == fixed_dofs

\* the zero set the conflict check of main looks the driver keys up in
CheckedZeroSet == fixed_final

\* variant: a single shared key is let through
ConflictFound_TwoKeys(drv, zero) == Cardinality(DrvKeys(drv) \cap zero) >= 2

\* the condition under which main raises the conflict error
ConflictFound(drv, zero) == DrvKeys(drv) \cap zero # {}

ConflictCheck ==
    /\ pc = "check"
    /\ IF ConflictFound(driver_constraints, CheckedZeroSet)
       THEN /\ pc' = "failed"
            /\ error' = "zero_driver_conflict"
       ELSE /\ pc' = "open"
            /\ UNCHANGED error
    /\ UNCHANGED <<file, parsedVars, nodes, pairVars, closureVars, driver_constraints, outVars>>

OpenOutput ==
    /\ pc = "open"
    /\ out_state' = "open"
    /\ out' = <<>>
    /\ pc' = "header"
    /\ UNCHANGED <<file, error, parsedVars, nodes, pairVars, closureVars, driver_constraints>>

DimTol(b) == SetMax({Abs(b[2] - b[1]), Abs(b[4] - b[3]), Abs(b[6] - b[5]), One}) \div TolRelDen

DimVerdict(b, decl) ==
    IF Abs((b[2] - b[1]) - decl[1]) > DimTol(b) \/ Abs((b[4] - b[3]) - decl[2]) > DimTol(b)
       \/ Abs((b[6] - b[5]) - decl[3]) > DimTol(b)
    THEN "dims_warning" ELSE "dims_ok"

\* header comments: declared and detected dimensions, the verdict, the
\* strain rows, the map echo and the warnings
HeaderLines ==
    << <<"!", "declared", float_to_str(dims_decl[1]), float_to_str(dims_decl[2]),
         float_to_str(dims_decl[3])>>,
       <<"!", "detected", MapSeq(bounds, float_to_str)>>,
       <<"!", DimVerdict(bounds, dims_decl)>>,
       <<"!", "vertices", vertex_ids>>,
       <<"!", "eps", [i \in 1..3 |-> MapSeq(eps[i], float_to_str_eps)]>>,
       <<"!", "map", dummy_eps_map>>,
       <<"!", "warnings", warnings_all>> >>

WriteHeader ==
    /\ pc = "header"
    /\ out' = out \o HeaderLines
    /\ pc' = "constraints"
    /\ UNCHANGED <<file, error, parsedVars, nodes, pairVars, closureVars, driver_constraints,
                   out_state>>

DriverLine(drv, key) == <<"abs", key[1], key[2], float_to_str_eps(DrvGet(drv, key[1], key[2]))>>
ZeroLine(key) == <<"abs", key[1], key[2], float_to_str(0)>>

\* variant: the zero constraints are written ahead of the driver constraints
emit_constraints_block_ZeroFirst(zero, drv) ==
    LET head == << <<"!">>, <<"!", "absolute_constraints">> >>
        dkeys == SortedKeys(DrvKeys(drv))
        zkeys == SortedKeys(zero)
        bad == {k \in DOMAIN zkeys : zkeys[k] \in DrvKeys(drv)}
        upto == IF bad = {} THEN Len(zkeys) ELSE SetMin(bad) - 1
    IN IF zero = {} /\ drv = <<>>
       THEN [lines |-> head \o << <<"!", "none">> >>, raised |-> FALSE]
       ELSE [lines |-> head \o << <<"constraints">> >>
                       \o [k \in 1..upto |-> ZeroLine(zkeys[k])]
                       \o [k \in DOMAIN dkeys |-> DriverLine(drv, dkeys[k])],
             raised |-> bad # {}]

\* emit_constraints_block: the lines written and whether the conflict
\* error was raised on the way (the zero lines before the conflicting key
\* are written by then)
emit_constraints_block(zero, drv) ==
    LET head == << <<"!">>, <<"!", "absolute_constraints">> >>
        dkeys == SortedKeys(DrvKeys(drv))
        zkeys == SortedKeys(zero)
        bad == {k \in DOMAIN zkeys : zkeys[k] \in DrvKeys(drv)}
        upto == IF bad = {} THEN Len(zkeys) ELSE SetMin(bad) - 1
    IN IF zero = {} /\ drv = <<>>
       THEN [lines |-> head \o << <<"!", "none">> >>, raised |-> FALSE]
       ELSE [lines |-> head \o << <<"constraints">> >>
                       \o [k \in DOMAIN dkeys |-> DriverLine(drv, dkeys[k])]
                       \o [k \in 1..upto |-> ZeroLine(zkeys[k])],
             raised |-> bad # {}]

EmitConstraints ==
    /\ pc = "constraints"
    /\ \E r \in {emit_constraints_block(fixed_final, driver_constraints)} :
          /\ out' = out \o r.lines
          /\ IF r.raised
             THEN /\ pc' = "failed"
                  /\ error' = "zero_driver_conflict_in_emit"
                  /\ out_state' = "closed"
             ELSE /\ pc' = "multipoint"
                  /\ UNCHANGED <<error, out_state>>
    /\ UNCHANGED <<file, parsedVars, nodes, pairVars, closureVars, driver_constraints>>

\* the multipoint block, the summary counts and the end of the with block
WriteMpcs ==
    /\ pc = "multipoint"
    /\ out' = out \o << <<"!", "mpc_section">>, <<"multipoint">> >>
                   \o [k \in DOMAIN mpc_lines |-> <<"mpc", mpc_lines[k].text>>]
                   \o << <<"!", "totals", Cardinality(fixed_final), Len(driver_constraints),
                          Len(mpc_lines)>> >>
    /\ out_state' = "closed"
    /\ pc' = "done"
    /\ UNCHANGED <<file, error, parsedVars, nodes, pairVars, closureVars, driver_constraints>>

Next ==
    \/ parse_model_def
    \/ Classify
    \/ BuildPairings
    \/ ClosureEnter
    \/ ClosureIter
    \/ FinalMpcs
    \/ BuildDriver
    \/ ConflictCheck
    \/ OpenOutput
    \/ WriteHeader
    \/ EmitConstraints
    \/ WriteMpcs

Spec == Init /\ [][Next]_vars

TypeOK ==
    /\ pc \in {"parse", "classify", "pair", "closure_enter", "closure", "final", "driver",
                "check", "open", "header", "constraints", "multipoint", "done", "failed"}
    /\ out_state \in {"unopened", "open", "closed"}
    /\ iter \in 0..MaxIter
    /\ fixed \subseteq (Nat \X Dofs)

\* ------------------------------------------------------------------
\* Properties
\* ------------------------------------------------------------------
NNodes == Len(nodes)
Physical == (1..NNodes) \X Dofs

\* the equation of group g, pairing idx and dof i keeps two or more terms
\* under the working set, so that the final pass writes a line for it
EquationKept(t) ==
    /\ t[2] <= Len(GroupList(t[1]))
    /\ KindOk(GroupList(t[1])[t[2]], nodes, GroupKind(t[1]))
    /\ Len(Terms(GroupList(t[1])[t[2]], t[3], eps, dummy_eps_map, fixed)) >= 2

\* no pairing list is longer than this
MaxList == NNodes + Len(VertexDefs)

\* closure_generate_all_mpcs has returned to main
ClosureReturned ==
    \/ pc \in {"driver", "check", "open", "header", "constraints", "multipoint", "done"}
    \/ pc = "failed" /\ error \in {"driver_conflict", "zero_driver_conflict",
                                     "zero_driver_conflict_in_emit"}

\* the conflict check of main has run
Checked ==
    \/ pc \in {"open", "header", "constraints", "multipoint", "done"}
    \/ pc = "failed" /\ error \in {"zero_driver_conflict", "zero_driver_conflict_in_emit"}

Overlap == DrvKeys(driver_constraints) \cap fixed_final

\* C1: a run that reaches the output-writing stage has no (node,dof) key in
\* both the final FixedDofSet and the DriverConstraintMap; a run where some
\* key is in both ends in the fatal conflict error with no output written.
C1_Disjoint ==
    /\ (out_state # "unopened" \/ pc \in {"open", "header", "constraints", "multipoint", "done"})
          => Overlap = {}
    /\ (Checked /\ Overlap # {})
          => (pc = "failed" /\ error = "zero_driver_conflict" /\ out_state = "unopened"
              /\ out = <<>>)

C1_Witness ==
    /\ pc = "failed" /\ error = "zero_driver_conflict"
    /\ Overlap \cap (fixed_final \ fixed_dofs) # {}

\* every single-term equation resolved by a pass of the closure so far
Resolved == UNION { implied_log[k].collapsed : k \in DOMAIN implied_log }

\* C2: an equation that some pass of the closure (the final pass included)
\* left with exactly one term, of coefficient magnitude 1 on a physical
\* node, has no line in the final MPC list; its (node,dof) is in the
\* returned fixed set and is printed as a zero constraint in the
\* constraints block, ahead of the multipoint keyword.
C2_CollapsedIsAbsolute ==
    ClosureReturned =>
        \A c \in Resolved :
            /\ ~\E k \in DOMAIN mpc_lines :
                   mpc_lines[k].grp = c[1] /\ mpc_lines[k].idx = c[2] /\ mpc_lines[k].dof = c[3]
            /\ <<c[4], c[5]>> \in fixed_final
            /\ pc = "done" =>
                  \E k \in DOMAIN out :
                      /\ out[k] = <<"abs", c[4], c[5], <<"", 0, 0>>>>
                      /\ \E h \in DOMAIN out : h > k /\ out[h] = <<"multipoint">>

C2_Witness ==
    /\ pc = "done" /\ mpc_lines # <<>>
    /\ \E c \in Resolved : c[1] <= 3 /\ <<c[4], c[5]>> \notin fixed_dofs

\* C4: running the closure again from the fixed set a call returned adds
\* no pair and gives the same fixed set and the same MPC list.
C4_Idempotent ==
    pc = "driver" =>
        closure_generate_all_mpcs(fixed_final)
          = [fixed_final |-> fixed_final, all_mpc_lines |-> mpc_lines]

C4_Witness ==
    /\ pc = "driver" /\ iter >= 3 /\ mpc_lines # <<>>
    /\ Cardinality(fixed_final \ fixed_dofs) >= 3
    /\ closure_generate_all_mpcs(fixed_dofs).fixed_final = fixed_final

\* C3: the FixedDofSet never loses a pair from one step of the closure to
\* the next, and the set returned contains every caller-supplied pair.
C3_Monotone ==
    /\ [][fixed \subseteq fixed']_vars
    /\ [](ClosureReturned => (fixed_dofs \subseteq fixed_final /\ fixed_final = fixed))

C3_Witness ==
    /\ pc = "driver" /\ iter >= 3
    /\ fixed_dofs # {} /\ fixed_dofs \subseteq fixed_final /\ fixed_final # fixed_dofs

\* C5: every fatal error leaves the output file unopened and nothing
\* written; with the output file open no step ends in a fatal error.
C5_FatalBeforeOpen ==
    /\ [](pc = "failed" => (error # "" /\ out_state = "unopened" /\ out = <<>>))
    /\ [](error # "" => pc = "failed")
    /\ [][out_state = "open" => pc' # "failed"]_vars

C5_Witness ==
    /\ pc = "failed" /\ error = "zero_driver_conflict" /\ out_state = "unopened"
    /\ fixed_final # {} /\ mpc_lines # <<>>

IsAbsLine(l) == l[1] = "abs"
LineKey(l) == <<l[2], l[3]>>
Positions(tag) == {k \in DOMAIN out : out[k][1] = tag}

\* C6: the constraints keyword is in the output exactly when there is a
\* zero or a driver constraint; it comes before every absolute-constraint
\* line, these come before the multipoint keyword, and that before every
\* MPC line; the absolute-constraint lines are the driver constraints in
\* ascending (node,dof) order followed by the zero constraints in
\* ascending (node,dof) order.
C6_ConstraintsBeforeMultipoint ==
    pc = "done" =>
        LET A == SelectSeq(out, IsAbsLine)
            nD == Len(driver_constraints)
        IN /\ (Positions("constraints") # {})
                 <=> (fixed_final # {} \/ driver_constraints # <<>>)
           /\ Cardinality(Positions("constraints")) <= 1
           /\ Cardinality(Positions("multipoint")) = 1
           /\ Positions("abs") # {} => Positions("constraints") # {}
           /\ \A c \in Positions("constraints"), a \in Positions("abs") : c < a
           /\ \A c \in Positions("constraints") \cup Positions("abs"),
                 m \in Positions("multipoint") : c < m
           /\ \A m \in Positions("multipoint"), l \in Positions("mpc") : m < l
           /\ Cardinality(Positions("mpc")) = Len(mpc_lines)
           /\ Len(A) = nD + Cardinality(fixed_final)
           /\ \A k \in 1..nD :
                 /\ LineKey(A[k]) \in DrvKeys(driver_constraints)
                 /\ A[k][4] = float_to_str_eps(DrvGet(driver_constraints, A[k][2], A[k][3]))
           /\ \A k \in (nD + 1)..Len(A) :
                 LineKey(A[k]) \in fixed_final /\ A[k][4] = <<"", 0, 0>>
           /\ \A k \in 1..(Len(A) - 1) : k # nD => KeyLess(LineKey(A[k]), LineKey(A[k + 1]))

C6_Witness ==
    /\ pc = "done" /\ mpc_lines # <<>> /\ Cardinality(fixed_final) >= 2
    /\ Len(driver_constraints) = 2
    /\ KeyLess(LineKey(<<"abs">> \o driver_constraints[2]),
               LineKey(<<"abs">> \o driver_constraints[1]))

\* the scenario of C7: the unit cube of 8 corner nodes, each named by one
\* vertex label, zero strain tensor, empty DummyEpsMap, closure returned
CubeZeroStrain ==
    /\ ClosureReturned
    /\ file.node_lines = NodeLines(CubeMesh)
    /\ Cardinality(Range(vertex_ids)) = 8
    /\ eps = ZeroEps
    /\ dummy_eps_map = <<>>

Implied == fixed_final \ fixed_dofs

\* the other end of the vertex pairing node n is in
Partner(n) ==
    LET k == CHOOSE k \in DOMAIN vertex_pairings :
                 n \in {vertex_pairings[k].minus_node, vertex_pairings[k].plus_node}
    IN IF vertex_pairings[k].minus_node = n THEN vertex_pairings[k].plus_node
       ELSE vertex_pairings[k].minus_node

\* The original statement of C7: zero MPC equations and exactly 3 implied
\* zero constraints.
C7_Original == CubeZeroStrain => (Len(mpc_lines) = 0 /\ Cardinality(Implied) = 3)

\* C7 (amended): for the unit cube with zero strain and an empty
\* DummyEpsMap, each of the 12 (vertex pairing, dof) combinations gives a
\* two-term MPC equation unless one of its two DOFs is in the final fixed
\* set, and the implied zero constraints are the DOFs whose pairing partner
\* the caller fixed: 12 equations and no implied constraint without
\* caller-supplied constraints, 9 equations and 3 implied constraints when
\* the caller pins one corner in u, v and w.
C7_CubeZeroStrain ==
    CubeZeroStrain =>
        LET free == { t \in (DOMAIN vertex_pairings) \X (1..3) :
                        /\ <<vertex_pairings[t[1]].minus_node, comp[t[2]]>> \notin fixed_final
                        /\ <<vertex_pairings[t[1]].plus_node, comp[t[2]]>> \notin fixed_final }
        IN /\ Len(mpc_lines) = Cardinality(free)
           /\ \A k \in DOMAIN mpc_lines :
                 /\ mpc_lines[k].grp = NGroups /\ Len(mpc_lines[k].text) = 2
                 /\ <<mpc_lines[k].idx, mpc_lines[k].dof>> \in free
           /\ Implied = { t \in Physical : <<Partner(t[1]), t[2]>> \in fixed_dofs } \ fixed_dofs
           /\ fixed_dofs = {} => (Len(mpc_lines) = 12 /\ Implied = {})
           /\ fixed_dofs \cap Physical = {1} \X Dofs
                 => (Len(mpc_lines) = 9 /\ Implied = {Partner(1)} \X Dofs)

C7_Witness ==
    /\ CubeZeroStrain /\ pc = "done"
    /\ fixed_dofs = {1} \X Dofs
    /\ Len(mpc_lines) = 9 /\ Cardinality(Implied) = 3

\* the scenario of C8: the cube of 8 corner nodes, eps[1][2] the only
\* nonzero strain component, a DummyEpsMap entry for (1,2), and
\* build_driver_constraints has returned
CubeEps12 ==
    /\ Checked \/ pc = "check"
    /\ file.node_lines = NodeLines(CubeMesh)
    /\ \A i, j \in 1..3 : (eps[i][j] # 0) <=> (i = 1 /\ j = 2)
    /\ MapHas(dummy_eps_map, 1, 2)

Entry12 == MapGet(dummy_eps_map, 1, 2)
DummyKey12 == <<Entry12[3], Entry12[5]>>
IsDummyTerm(t) == <<t[2], t[4]>> = DummyKey12

\* the MPC lines of vertex pairing k that contain a dummy-node term
DummyLinesOf(k) ==
    { n \in DOMAIN mpc_lines :
        /\ mpc_lines[n].grp = NGroups /\ mpc_lines[n].idx = k
        /\ \E t \in DOMAIN mpc_lines[n].text : IsDummyTerm(mpc_lines[n].text[t]) }

\* the dummy term of line n is written with coefficient minus delta_y of
\* pairing k: sign "+" or "-" and the magnitude
MinusDeltaY(n, k) ==
    \A t \in DOMAIN mpc_lines[n].text :
        IsDummyTerm(mpc_lines[n].text[t]) =>
            /\ t >= 2
            /\ mpc_lines[n].text[t][1]
                  = (IF -vertex_pairings[k].delta[2] >= 0 THEN "+" ELSE "-")
            /\ mpc_lines[n].text[t][3] = float_to_str(Abs(vertex_pairings[k].delta[2]))

Affected(k) == vertex_pairings[k].delta[2] # 0

\* The original statement of C8: every affected pairing has exactly one
\* MPC line with a dummy term of coefficient minus delta_y, and the one
\* driver constraint is on the mapped driver node with dof v and value
\* eps[1][2].
C8_Original ==
    CubeEps12 =>
        /\ \A k \in DOMAIN vertex_pairings :
              Affected(k) => /\ Cardinality(DummyLinesOf(k)) = 1
                             /\ \A n \in DummyLinesOf(k) : MinusDeltaY(n, k)
        /\ driver_constraints = << <<Entry12[4], "v", eps[1][2]>> >>

\* C8 (amended): for the cube of 8 corner nodes with eps[1][2] the only
\* nonzero strain component and a DummyEpsMap entry for (1,2), an affected
\* pairing (delta_y nonzero) yields exactly one MPC line with a dummy-node
\* term when the entry's dummy DOF and at least one of the pairing's two u
\* DOFs are outside the final FixedDofSet, and none otherwise; that line is
\* the pairing's u equation and the coefficient of its dummy term is minus
\* the pairing's delta_y; exactly one driver constraint is produced, on
\* the mapped driver node, with the dof named by the map entry and value
\* eps[1][2].
C8_CubeEps12 ==
    CubeEps12 =>
        /\ \A k \in DOMAIN vertex_pairings :
              LET p == vertex_pairings[k]
                  live == /\ DummyKey12 \notin fixed_final
                          /\ \/ <<p.plus_node, "u">> \notin fixed_final
                             \/ <<p.minus_node, "u">> \notin fixed_final
              IN /\ Cardinality(DummyLinesOf(k)) = (IF Affected(k) /\ live THEN 1 ELSE 0)
                 /\ \A n \in DummyLinesOf(k) : mpc_lines[n].dof = 1 /\ MinusDeltaY(n, k)
        /\ \A n \in DOMAIN mpc_lines :
              (\E t \in DOMAIN mpc_lines[n].text : IsDummyTerm(mpc_lines[n].text[t]))
                 => n \in UNION {DummyLinesOf(k) : k \in DOMAIN vertex_pairings}
        /\ driver_constraints = << <<Entry12[4], Entry12[5], eps[1][2]>> >>

C8_Witness ==
    /\ CubeEps12 /\ pc = "done"
    /\ Entry12[5] = "u"
    /\ \E k \in DOMAIN vertex_pairings : vertex_pairings[k].delta[2] > 0
    /\ \E k \in DOMAIN vertex_pairings : vertex_pairings[k].delta[2] < 0
    /\ \A k \in DOMAIN vertex_pairings : Affected(k) /\ Cardinality(DummyLinesOf(k)) = 1

\* the closure loop is running or has run
InClosure == pc \in {"closure", "final"} \/ ClosureReturned

C10_Original == InClosure => Cardinality(fixed) <= 3 * NNodes

\* C10 (amended): every pair the closure adds is on a node of the mesh, so
\* the FixedDofSet holds at most 3N pairs plus the caller-supplied pairs on
\* nodes outside 1..N.
C10_Bounded ==
    InClosure => /\ (fixed \ fixed_dofs) \subseteq Physical
                 /\ Cardinality(fixed) <= 3 * NNodes + Cardinality(fixed_dofs \ Physical)

C10_Witness ==
    /\ pc = "driver"
    /\ Cardinality(fixed_final) > 3 * NNodes
    /\ fixed_final # fixed_dofs

\* parse_model_def has returned normally
ParseSucceeded ==
    /\ pc # "parse"
    /\ pc = "failed" => error \in {"vertex_missing", "driver_conflict", "zero_driver_conflict",
                                     "zero_driver_conflict_in_emit"}

\* C11: parse_model_def succeeds only if the k-th node line carries node id
\* k for every k in 1..n_nodes; on success the ids of the node set are
\* exactly 1..N and node k has the coordinates of the k-th node line; a
\* file whose node lines have a gap, a duplicate or an out-of-order id ends
\* in a fatal error.
C11_SequentialIds ==
    /\ ParseSucceeded =>
          /\ \A k \in 1..file.n_nodes : file.node_lines[k][1] = k
          /\ DOMAIN nodes = 1..file.n_nodes
          /\ \A k \in DOMAIN nodes :
                <<nodes[k].x, nodes[k].y, nodes[k].z>> = SubSeq(file.node_lines[k], 2, 4)
    /\ (pc # "parse" /\ \E k \in DOMAIN file.node_lines : file.node_lines[k][1] # k)
          => (pc = "failed" /\ ~ParseSucceeded /\ nodes = <<>>)
    /\ (pc # "parse" /\ file.defect = "none"
            /\ (\A k \in DOMAIN file.dmap : ~BadMapLine(file.dmap[k]))
            /\ Len(file.node_lines) >= file.n_nodes
            /\ \E k \in DOMAIN file.node_lines : file.node_lines[k][1] # k)
          => error = "node_not_sequential"

C11_Witness ==
    /\ pc = "failed" /\ error = "node_not_sequential"
    /\ file.node_lines[2][1] = 3 /\ file.node_lines[3][1] = 3

\* BuildPairings has just acted; nodes and pairing lists do not change later
PairingsBuilt == pc = "closure_enter" \/ (pc = "failed" /\ error = "vertex_missing")

FaceNames == << <<"X-", "X+">>, <<"Y-", "Y+">>, <<"Z-", "Z+">> >>

\* the pairings of a list with the two nodes exchanged and delta negated
Swapped(plist) ==
    { [minus_node |-> plist[k].plus_node, plus_node |-> plist[k].minus_node,
       delta |-> <<-plist[k].delta[1], -plist[k].delta[2], -plist[k].delta[3]>>]
      : k \in DOMAIN plist }

\* C12: pairing with the minus and plus sides exchanged (the face pairing
\* called with the plus face as minus face, the edge pairing with the two
\* face sets of a label exchanged) yields as many pairs as the original
\* pairing, and its pairs are the original pairs with the two nodes
\* exchanged and the delta vector negated.
C12_SwapSymmetric ==
    PairingsBuilt =>
        /\ \A a \in 1..3 :
              LET sw == pair_face_nodes(nodes, FaceNames[a][2], FaceNames[a][1])
              IN Len(sw) = Len(face_pairings[a]) /\ Range(sw) = Swapped(face_pairings[a])
        /\ \A l \in DOMAIN EdgeSpecs :
              LET sw == EdgeList(nodes, <<EdgeSpecs[l][2], EdgeSpecs[l][1], EdgeSpecs[l][3]>>)
              IN Len(sw) = Len(edge_pairings[l]) /\ Range(sw) = Swapped(edge_pairings[l])

C12_Witness ==
    /\ pc = "closure_enter"
    /\ \E k \in DOMAIN face_pairings[3] : face_pairings[3][k].delta[1] = 3
    /\ Len(face_pairings[1]) = 4
    /\ Len(edge_pairings[1]) = 1 /\ edge_pairings[1][1].delta = <<2*One, 2*One, 0>>
    /\ \E n \in DOMAIN nodes : nodes[n].kind = "face" /\ "X-" \in nodes[n].faces

\* the input that differs from f only in the declared dimensions
OtherDims(f) == [f EXCEPT !.Ldecl = IF f.Ldecl = AltDims THEN <<One, One, One>> ELSE AltDims]

\* the classified nodes of input f
ClassifiedNodes(f) == classify_boundary_nodes(detect_bounds(ParsedNodes(f)), ParsedNodes(f))

\* build_driver_constraints has returned normally
DriverBuilt == Checked \/ pc = "check"

\* C13: every result of a run other than the declared dimensions and the
\* header verdict is the one computed from the input with the other
\* declared dimensions: the parse outcome, the classified nodes, the
\* pairing lists, the final FixedDofSet and the MPC list that the closure
\* returns and the DriverConstraintMap are the same for two inputs that
\* differ only in Lx, Ly, Lz.
C13_DimsOnlyVerdict ==
    LET g == OtherDims(file)
    IN /\ pc # "parse" => (ParseSucceeded <=> ParseError(g) = "")
       /\ (pc = "failed" /\ ~ParseSucceeded) => error = ParseError(g)
       /\ ParseSucceeded =>
             /\ vertex_ids = g.vertex_line /\ eps = g.eps
             /\ fixed_dofs = ParseAbs(g.abs)
             /\ dummy_eps_map = ParseMap(g.dmap, Len(g.dmap))
       /\ pc = "classify" => nodes = ParsedNodes(g)
       /\ pc = "pair" => /\ bounds = detect_bounds(ParsedNodes(g))
                         /\ nodes = ClassifiedNodes(g)
       /\ PairingsBuilt =>
             /\ face_pairings = build_face_pairings(ClassifiedNodes(g))
             /\ edge_pairings = build_edge_pairings(ClassifiedNodes(g))
             /\ (pc = "failed") <=> VertexMissing(ClassifiedNodes(g), g.vertex_line)
             /\ pc # "failed" =>
                   vertex_pairings = build_vertex_pairings_from_vertices(ClassifiedNodes(g),
                                                                         g.vertex_line)
       /\ pc = "driver" =>
             <<fixed_final, mpc_lines>>
                \in { <<r.fixed_final, r.all_mpc_lines>> :
                         r \in {closure_generate_all_mpcs(ParseAbs(g.abs))} }
       /\ DriverBuilt =>
             driver_constraints
                = build_driver_constraints(g.eps, ParseMap(g.dmap, Len(g.dmap))).drv

C13_Witness ==
    /\ pc = "done"
    /\ file.Ldecl = AltDims /\ OtherDims(file) \in GoodFiles
    /\ DimVerdict(bounds, dims_decl) = "dims_warning"
    /\ DimVerdict(bounds, OtherDims(file).Ldecl) = "dims_ok"
    /\ \E k \in DOMAIN out : out[k] = <<"!", "dims_warning">>
    /\ fixed_final # {} /\ mpc_lines # <<>> /\ driver_constraints # <<>>

\* build_driver_constraints raised its conflict error
DriverRaised == pc = "failed" /\ error = "driver_conflict"

\* the DummyEpsMap entries whose strain component is not negligible
NonNegligible == {k \in DOMAIN dummy_eps_map :
                    Abs(eps[dummy_eps_map[k][1]][dummy_eps_map[k][2]]) >= EpsTol}
EntryKey(k) == <<dummy_eps_map[k][4], dummy_eps_map[k][5]>>
EntryVal(k) == eps[dummy_eps_map[k][1]][dummy_eps_map[k][2]]

\* the first non-negligible entry with the same (driver_node,dof) as entry k
FirstOnKey(k) == SetMin({h \in NonNegligible : EntryKey(h) = EntryKey(k)})

\* The original statement of C14: a conflict is raised exactly when two
\* non-negligible entries on one key differ by more than the tolerance, and
\* otherwise each key carries the value of every entry mapped to it.
C14_Original ==
    (DriverBuilt \/ DriverRaised) =>
        LET differ == \E h, k \in NonNegligible :
                          EntryKey(h) = EntryKey(k) /\ Abs(EntryVal(h) - EntryVal(k)) > CloseTol
        IN /\ DriverRaised <=> differ
           /\ ~differ =>
                 /\ DrvKeys(driver_constraints) = {EntryKey(k) : k \in NonNegligible}
                 /\ \A k \in NonNegligible :
                       DrvGet(driver_constraints, EntryKey(k)[1], EntryKey(k)[2]) = EntryVal(k)

\* C14 (amended): build_driver_constraints raises a fatal conflict exactly
\* when some non-negligible entry differs by more than the tolerance from
\* the first non-negligible entry, in map order, on the same
\* (driver_node,dof); otherwise the returned map has one key per
\* (driver_node,dof) of a non-negligible entry, in the order of first use,
\* each key carries the value of the first entry mapped to it, and every
\* other entry mapped to it agrees with that value within the tolerance
\* without having to be equal to it.
C14_DriverValues ==
    (DriverBuilt \/ DriverRaised) =>
        LET differ == \E k \in NonNegligible :
                          Abs(EntryVal(k) - EntryVal(FirstOnKey(k))) > CloseTol
            firsts == SortedSeq({k \in NonNegligible : FirstOnKey(k) = k})
        IN /\ DriverRaised <=> differ
           /\ DriverRaised => driver_constraints = <<>>
           /\ ~differ =>
                 /\ driver_constraints
                       = [n \in DOMAIN firsts |->
                            <<EntryKey(firsts[n])[1], EntryKey(firsts[n])[2], EntryVal(firsts[n])>>]
                 /\ \A k \in NonNegligible :
                       /\ DrvGet(driver_constraints, EntryKey(k)[1], EntryKey(k)[2])
                             = EntryVal(FirstOnKey(k))
                       /\ Abs(DrvGet(driver_constraints, EntryKey(k)[1], EntryKey(k)[2])
                              - EntryVal(k)) <= CloseTol

C14_Witness ==
    /\ pc = "check"
    /\ Len(driver_constraints) = 1
    /\ \E h, k \in NonNegligible :
          /\ h < k /\ EntryKey(h) = EntryKey(k)
          /\ EntryVal(h) # EntryVal(k)
          /\ driver_constraints[1][3] = EntryVal(h)

\* the equations of every group as pass number n of the closure saw them
EquationsOfPass(n) ==
    UNION { Range(Equations(GroupList(g), g, GroupKind(g), nodes, eps, dummy_eps_map,
                            implied_log[n].fx)) : g \in 1..NGroups }

\* C15: in every pass of the closure, an equation left with exactly one
\* term is recorded as an implied zero constraint exactly when the term is
\* on a physical node with coefficient magnitude 1; a lone term on a dummy
\* node or with another coefficient is reported in a warning and yields
\* neither an implied constraint nor an MPC line; the pass implies nothing
\* but the recorded terms, and the FixedDofSet holds nothing but the
\* caller's pairs and implied pairs.
C15_LoneTerm ==
    pc = "driver" =>
        /\ \A n \in DOMAIN implied_log :
              /\ \A q \in EquationsOfPass(n) :
                    Len(q.terms) = 1 =>
                       LET t == q.terms[1]
                           unit == t[2] \in DOMAIN nodes /\ Abs(t[1]) = One
                       IN /\ unit <=> <<q.grp, q.idx, q.dof, t[2], t[3]>> \in implied_log[n].collapsed
                          /\ ~unit => /\ <<"single_term", t[2], t[3], float_to_str(t[1])>>
                                          \in warnings_all
                                      /\ t[2] \notin DOMAIN nodes => <<t[2], t[3]>> \notin fixed_final
                          /\ n = Len(implied_log) =>
                                ~\E k \in DOMAIN mpc_lines :
                                    /\ mpc_lines[k].grp = q.grp /\ mpc_lines[k].idx = q.idx
                                    /\ mpc_lines[k].dof = q.dof
              /\ implied_log[n].implied
                    = { <<c[4], c[5]>> : c \in implied_log[n].collapsed }
              /\ \A c \in implied_log[n].collapsed :
                    \E q \in EquationsOfPass(n) :
                        /\ <<q.grp, q.idx, q.dof>> = <<c[1], c[2], c[3]>>
                        /\ Len(q.terms) = 1 /\ q.terms[1][2] = c[4] /\ q.terms[1][3] = c[5]
        /\ fixed_final \subseteq
              fixed_dofs \cup UNION { implied_log[n].implied : n \in DOMAIN implied_log }

\* a lone term of coefficient -2 on a physical node is left unresolved in a
\* run that resolves another lone term
C15_Witness ==
    /\ pc = "driver"
    /\ \E w \in warnings_all :
          /\ w[1] = "single_term" /\ w[2] \in DOMAIN nodes
          /\ w[4] = <<"-", 2, 0>>
          /\ <<w[2], w[3]>> \notin fixed_final
    /\ fixed_final # fixed_dofs

\* the terms an equation of pairing p and strain row i can have, in the
\* order plus node, minus node, dummy of column 1, 2, 3; a dummy term
\* exists when its strain component is not negligible, the pairing's delta
\* along the column is not zero and the DummyEpsMap has the component
CandidateTerms(p, i) ==
    << [on |-> TRUE, t |-> <<One, p.plus_node, comp[i]>>],
       [on |-> TRUE, t |-> <<-One, p.minus_node, comp[i]>>] >>
    \o [j \in 1..3 |->
          IF Abs(eps[i][j]) >= EpsTol /\ p.delta[j] # 0 /\ MapHas(dummy_eps_map, i, j)
          THEN [on |-> TRUE, t |-> <<-p.delta[j], MapGet(dummy_eps_map, i, j)[3],
                                     MapGet(dummy_eps_map, i, j)[5]>>]
          ELSE [on |-> FALSE, t |-> <<0, 0, "">>]]

\* the candidate is a term and its (node,dof) is outside the final FixedDofSet
CandidateFree(c) == c.on /\ <<c.t[2], c.t[3]>> \notin fixed_final

\* how a term is written at position k of a line
Rendered(t, k) ==
    IF k = 1
    THEN <<"", t[2], <<IF t[1] < 0 THEN "-" ELSE "", Abs(t[1]) \div One, Abs(t[1]) % One>>, t[3]>>
    ELSE <<IF t[1] >= 0 THEN "+" ELSE "-", t[2], <<"", Abs(t[1]) \div One, Abs(t[1]) % One>>, t[3]>>

\* C16: every equation of the final MPC list has at least two terms, none
\* of its terms is on a (node,dof) of the final FixedDofSet, and its terms
\* are, in this order, the plus-node term (+1), the minus-node term (-1)
\* and the dummy terms (minus delta_j) by ascending j, each present only
\* when its (node,dof) is outside the final FixedDofSet.
C16_FinalEquations ==
    ClosureReturned =>
        \A n \in DOMAIN mpc_lines :
            LET L == mpc_lines[n]
                kept == SelectSeq(CandidateTerms(GroupList(L.grp)[L.idx], L.dof), CandidateFree)
            IN /\ Len(L.text) >= 2
               /\ \A k \in DOMAIN L.text : <<L.text[k][2], L.text[k][4]>> \notin fixed_final
               /\ Len(L.text) = Len(kept)
               /\ \A k \in DOMAIN L.text : L.text[k] = Rendered(kept[k].t, k)

\* a final list with an equation that lost its plus-node term and kept a
\* dummy term, and an equation with plus, minus and dummy term
C16_Witness ==
    /\ pc = "done"
    /\ \E n \in DOMAIN mpc_lines :
          /\ Len(mpc_lines[n].text) = 2
          /\ mpc_lines[n].text[1][3][1] = "-"
          /\ mpc_lines[n].text[2][2] \notin DOMAIN nodes
    /\ \E n \in DOMAIN mpc_lines :
          /\ Len(mpc_lines[n].text) = 3
          /\ mpc_lines[n].text[3][2] \notin DOMAIN nodes
    /\ fixed_final # {}

Degenerate(n) == n \in DOMAIN nodes /\ nodes[n].kind = "degenerate"

\* the (node,dof) pairs the closure added to the caller's set
ImpliedPairs == fixed_final \ fixed_dofs

Coord(n, axis) == IF axis = "X" THEN nodes[n].x ELSE IF axis = "Y" THEN nodes[n].y ELSE nodes[n].z

\* the axes whose rounded coordinates are the matching key of group g
KeyAxes(g) == IF g <= 3 THEN {"X", "Y", "Z"} \ {FaceAxis(FaceNames[g][1])}
              ELSE {EdgeSpecs[g - 3][3]}

SameKey(g, m, n) == \A a \in KeyAxes(g) : round_coord(Coord(m, a)) = round_coord(Coord(n, a))

\* the nodes that can be minus (side 1) or plus (side 2) node of group g
SideNodes(g, side) ==
    IF g <= 3 THEN {n \in DOMAIN nodes : FaceNames[g][side] \in nodes[n].faces}
    ELSE {n \in DOMAIN nodes : nodes[n].kind = "edge" /\ nodes[n].faces = EdgeSpecs[g - 3][side]}

\* C18: in every face-axis and edge-label pairing list each node occurs at
\* most once as minus node and at most once as plus node; the minus node
\* is on the minus side and the plus node on the plus side of the group,
\* and the two have equal rounded matching keys (both transverse
\* coordinates for faces, the free-axis coordinate for edges); a node whose
\* key has no counterpart on the opposite side is in no pair, and this
\* raises no error; only pairs whose two nodes are both of kind face
\* (respectively edge) have equations in the final MPC list or among the
\* implied zero constraints.
C18_PairingLists ==
    /\ PairingsBuilt =>
          \A g \in 1..(NGroups - 1) :
              LET plist == GroupList(g)
              IN /\ \A h, k \in DOMAIN plist :
                       h # k => /\ plist[h].minus_node # plist[k].minus_node
                                /\ plist[h].plus_node # plist[k].plus_node
                 /\ \A k \in DOMAIN plist :
                       /\ plist[k].minus_node \in SideNodes(g, 1)
                       /\ plist[k].plus_node \in SideNodes(g, 2)
                       /\ SameKey(g, plist[k].minus_node, plist[k].plus_node)
                 /\ \A n \in SideNodes(g, 1) :
                       (~\E m \in SideNodes(g, 2) : SameKey(g, n, m))
                          => ~\E k \in DOMAIN plist : plist[k].minus_node = n
                 /\ \A n \in SideNodes(g, 2) :
                       (~\E m \in SideNodes(g, 1) : SameKey(g, m, n))
                          => ~\E k \in DOMAIN plist : plist[k].plus_node = n
                 /\ (\E n \in SideNodes(g, 1) \cup SideNodes(g, 2) : TRUE)
                       => error \in {"", "vertex_missing"}
    /\ ClosureReturned =>
          \A g \in 1..(NGroups - 1) : \A k \in DOMAIN GroupList(g) :
              ((\E n \in DOMAIN mpc_lines : mpc_lines[n].grp = g /\ mpc_lines[n].idx = k)
                 \/ (\E c \in Resolved : c[1] = g /\ c[2] = k))
              => /\ nodes[GroupList(g)[k].minus_node].kind = GroupKind(g)
                 /\ nodes[GroupList(g)[k].plus_node].kind = GroupKind(g)
                 /\ GroupKind(g) = (IF g <= 3 THEN "face" ELSE "edge")

\* a Z face pair whose x coordinates differ before rounding, an X- face
\* node without counterpart, corner pairs in the X list that generate
\* nothing, an edge pair, and equations of the face and the edge pair
C18_Witness ==
    /\ pc = "driver"
    /\ \E k \in DOMAIN face_pairings[3] :
          /\ Coord(face_pairings[3][k].minus_node, "X") # Coord(face_pairings[3][k].plus_node, "X")
          /\ \E n \in DOMAIN mpc_lines : mpc_lines[n].grp = 3 /\ mpc_lines[n].idx = k
    /\ \E n \in SideNodes(1, 1) :
          /\ nodes[n].kind = "face"
          /\ ~\E k \in DOMAIN face_pairings[1] : face_pairings[1][k].minus_node = n
    /\ \E k \in DOMAIN face_pairings[1] : nodes[face_pairings[1][k].minus_node].kind = "vertex"
    /\ \E n \in DOMAIN mpc_lines : mpc_lines[n].grp = 4

\* what the groups imply when each is evaluated on its own against fx
ImpliedUnder(fx) == UNION { GenGroup(g, fx).implied_abs : g \in 1..NGroups }

\* the closure as a union of per-group results, without processing order
RECURSIVE UnorderedClosure(_, _)
UnorderedClosure(fx, n) ==
    IF n >= MaxIter \/ ImpliedUnder(fx) \subseteq fx THEN fx
    ELSE UnorderedClosure(fx \cup ImpliedUnder(fx), n + 1)

\* C19: an iteration of the closure adds to the FixedDofSet exactly the
\* union of what each group implies when evaluated against the set as it
\* stood at the start of the iteration, and changes the set in no other
\* way; the final pass leaves it unchanged; the closed set is the one
\* obtained from the per-group results without regard to processing order.
C19_GroupsSeeStartSet ==
    /\ [][pc = "closure" => fixed' = fixed \cup ImpliedUnder(fixed)]_vars
    /\ [][(pc \in {"final", "driver", "check", "open", "header", "constraints", "multipoint"})
            => (fixed' = fixed)]_vars
    /\ [](pc = "driver" => fixed_final = UnorderedClosure(fixed_dofs, 0))

\* an iteration in which a face pairing implies a pair that a vertex
\* pairing, processed later in the same iteration, could have used: the
\* vertex pair's DOF is free before and after the iteration
C19_Witness ==
    /\ pc = "closure" /\ iter >= 2
    /\ \E k \in DOMAIN vertex_pairings : \E d \in Dofs :
          /\ <<vertex_pairings[k].minus_node, d>> \in fixed
          /\ <<vertex_pairings[k].plus_node, d>> \notin fixed
          /\ \E c \in implied_log[Len(implied_log)].collapsed :
                c[1] <= 3 /\ <<c[4], c[5]>> = <<vertex_pairings[k].minus_node, d>>
          /\ <<vertex_pairings[k].minus_node, d>> \notin implied_log[Len(implied_log)].fx

\* the loop of the closure left through break
Stabilized == ClosureReturned /\ <<"iter_limit">> \notin warnings_all

\* pairing k of group g passes the group's kind filter, so its three
\* equations are generated
Generates(g, k) ==
    LET p == GroupList(g)[k]
    IN /\ p.minus_node \in DOMAIN nodes /\ p.plus_node \in DOMAIN nodes
       /\ g <= 9 => \A n \in {p.minus_node, p.plus_node} :
                       nodes[n].kind = (IF g <= 3 THEN "face" ELSE "edge")

\* a dummy term enters the equation of pairing p and strain row i under
\* the final FixedDofSet
DummyEnters(p, i) == \E j \in 3..5 : CandidateFree(CandidateTerms(p, i)[j])

\* the (node,dof) pairs tied by an equation without dummy term
Tied ==
    { <<p.plus_node, p.minus_node, comp[i]>> :
        <<p, i>> \in { <<GroupList(g)[k], h>> :
                         <<g, k, h>> \in { x \in (1..NGroups) \X (1..MaxList) \X (1..3) :
                                              /\ x[2] \in DOMAIN GroupList(x[1])
                                              /\ Generates(x[1], x[2])
                                              /\ ~DummyEnters(GroupList(x[1])[x[2]], x[3]) } } }

\* C20: after a closure that left its loop through break, for every
\* pairing that passes its group's kind filter and every DOF whose equation
\* has no dummy term under the final FixedDofSet, the plus node's DOF is
\* in the final FixedDofSet exactly when the minus node's DOF is.
C20_ZeroPropagates ==
    Stabilized =>
        \A t \in Tied : (<<t[1], t[3]>> \in fixed_final) <=> (<<t[2], t[3]>> \in fixed_final)

\* a stabilized closure in which a zero constraint travelled along two
\* pairings that share a node: neither far end was fixed by the input
C20_Witness ==
    /\ pc = "driver" /\ Stabilized
    /\ \E s \in Tied : \E t \in Tied :
          /\ s[3] = t[3] /\ s # t
          /\ {s[1], s[2]} \cap {t[1], t[2]} # {}
          /\ Cardinality({s[1], s[2], t[1], t[2]}) = 3
          /\ \A n \in {s[1], s[2], t[1], t[2]} : <<n, s[3]>> \in fixed_final
          /\ Cardinality({n \in {s[1], s[2], t[1], t[2]} : <<n, s[3]>> \in fixed_dofs}) = 1
          /\ \E n \in {s[1], s[2]} \cap {t[1], t[2]} : <<n, s[3]>> \notin fixed_dofs

=============================================================================
